---- MODULE Spec2Model ----
(***************************************************************************)
(* Model of src/heap/remembered-set.h: the RememberedSet<direction> facade *)
(* over the per-chunk slot tables of a MemoryChunk.                        *)
(*                                                                         *)
(* A chunk holds, per direction, a pointer to an array of SlotSet (one per *)
(* page unit of the chunk) and a pointer to one TypedSlotSet.  SlotSet,    *)
(* TypedSlotSet and MemoryChunk live in slot-set.h and spaces.h; they are  *)
(* modelled from their documented contract: a SlotSet is a set of offsets  *)
(* within one page unit, a TypedSlotSet is a sequence of (type, host       *)
(* offset, offset) entries, and MemoryChunk::Allocate* / Release* attach a *)
(* fresh empty table / detach the table.                                   *)
(***************************************************************************)
EXTENDS Integers, Sequences, FiniteSets

\* ------------------------------------------------------------------ bounds
\* Page::kPageSize, scaled down: the number of slot offsets in a page unit.
kPageSize == 2
\* chunk->size() of the large chunk: it spans ceil(3/2) = 2 page units and the
\* last page unit is only partly covered.
LargeChunkSize == 3
\* TypedSlotSet::kMaxOffset, scaled down so that a slot of the large chunk can
\* lie at or above the packing limit.
kMaxOffset == 2
\* Distance between the base addresses of two chunks.
AddrStride == 8
\* Most entries (untyped slots plus typed entries, both directions, all
\* chunks) the environment records at one time under Spec.
MaxEntries == 2
\* Most typed entries (both directions) recorded at one time under SpecTyped.
MaxTyped == 2
\* Threads that insert concurrently under SpecThreads.
NumThreads == 2
\* Heap objects a typed slot can refer to under SpecUpdate: 1..MaxObject.
MaxObject == 2

\* --------------------------------------------------------------- constants
\* enum PointerDirection { OLD_TO_OLD, OLD_TO_NEW }
OLD_TO_OLD == "OLD_TO_OLD"
OLD_TO_NEW == "OLD_TO_NEW"
Directions == {OLD_TO_OLD, OLD_TO_NEW}

\* SlotCallbackResult
KEEP_SLOT == "KEEP_SLOT"
REMOVE_SLOT == "REMOVE_SLOT"
Verdicts == {KEEP_SLOT, REMOVE_SLOT}

\* SlotType values the environment records (two of the six kinds).
CODE_TARGET_SLOT == "CODE_TARGET_SLOT"
OBJECT_SLOT == "OBJECT_SLOT"
SlotTypes == {CODE_TARGET_SLOT, OBJECT_SLOT}
\* The other SlotType values UpdateTypedSlot handles.
CELL_TARGET_SLOT == "CELL_TARGET_SLOT"
CODE_ENTRY_SLOT == "CODE_ENTRY_SLOT"
DEBUG_TARGET_SLOT == "DEBUG_TARGET_SLOT"
EMBEDDED_OBJECT_SLOT == "EMBEDDED_OBJECT_SLOT"
AllSlotTypes ==
  SlotTypes \cup {CELL_TARGET_SLOT, CODE_ENTRY_SLOT, DEBUG_TARGET_SLOT,
                  EMBEDDED_OBJECT_SLOT}

\* A null table pointer; a present table is the 1-tuple of its contents.
nullptr == <<>>
\* The null Address (host_addr == nullptr in InsertTyped).
NullAddress == 0

\* -------------------------------------------------------------- the chunks
\* The MemoryChunkIterator yields the chunks of a heap in this order: a
\* regular Page of one page unit, then a large chunk.
ChunkOrder == <<"page", "large">>
Chunks == {ChunkOrder[i] : i \in 1..Len(ChunkOrder)}

\* chunk->address()
address(c) == IF c = "page" THEN AddrStride ELSE AddrStride + AddrStride
\* chunk->size()
size(c) == IF c = "page" THEN kPageSize ELSE LargeChunkSize
\* page->Contains(addr)
Contains(c, addr) == address(c) <= addr /\ addr < address(c) + size(c)
\* The addresses of a chunk.
Addresses(c) == {a \in address(c)..(address(c) + size(c)) : Contains(c, a)}
\* size_t pages = (chunk->size() + Page::kPageSize - 1) / Page::kPageSize
Pages(c) == (size(c) + kPageSize - 1) \div kPageSize

\* MemoryChunk: the four table pointers of one chunk, all null at creation.
EmptyChunk ==
  [old_to_old_slots |-> nullptr, old_to_new_slots |-> nullptr,
   typed_old_to_old_slots |-> nullptr, typed_old_to_new_slots |-> nullptr]

\* The array of SlotSet a chunk allocates: one empty SlotSet per page unit.
NewSlotSetArray(c) == <<[p \in 0..(Pages(c) - 1) |-> {}]>>
\* A fresh TypedSlotSet: no entries.
NewTypedSlotSet == <<<<>>>>

\* MemoryChunk::Allocate* / Release*: attach a fresh table, detach the table.
AllocateOldToOldSlots(ch, c) == [ch EXCEPT !.old_to_old_slots = NewSlotSetArray(c)]
AllocateOldToNewSlots(ch, c) == [ch EXCEPT !.old_to_new_slots = NewSlotSetArray(c)]
AllocateTypedOldToOldSlots(ch) == [ch EXCEPT !.typed_old_to_old_slots = NewTypedSlotSet]
AllocateTypedOldToNewSlots(ch) == [ch EXCEPT !.typed_old_to_new_slots = NewTypedSlotSet]
ReleaseOldToOldSlots(ch) == [ch EXCEPT !.old_to_old_slots = nullptr]
ReleaseOldToNewSlots(ch) == [ch EXCEPT !.old_to_new_slots = nullptr]
ReleaseTypedOldToOldSlots(ch) == [ch EXCEPT !.typed_old_to_old_slots = nullptr]
ReleaseTypedOldToNewSlots(ch) == [ch EXCEPT !.typed_old_to_new_slots = nullptr]

\* A write through a SlotSet* / TypedSlotSet* the caller holds: the table the
\* chunk points to gets the new contents.
StoreSlotSet(ch, d, arr) ==
  IF d = OLD_TO_OLD THEN [ch EXCEPT !.old_to_old_slots = <<arr>>]
  ELSE [ch EXCEPT !.old_to_new_slots = <<arr>>]
StoreTypedSlotSet(ch, d, entries) ==
  IF d = OLD_TO_OLD THEN [ch EXCEPT !.typed_old_to_old_slots = <<entries>>]
  ELSE [ch EXCEPT !.typed_old_to_new_slots = <<entries>>]

\* ------------------------------------------------- SlotSet and TypedSlotSet
\* The ascending sequence of a finite set of numbers.
RECURSIVE SortedSeq(_)
SortedSeq(S) ==
  IF S = {} THEN <<>>
  ELSE LET m == CHOOSE x \in S : \A y \in S : x <= y
       IN <<m>> \o SortedSeq(S \ {m})

\* SlotSet::Insert, Remove, RemoveRange on the offsets of one page unit.
SlotSetInsert(s, offset) == s \cup {offset}
SlotSetRemove(s, offset) == s \ {offset}
SlotSetRemoveRange(s, start_offset, end_offset) ==
  {o \in s : ~(start_offset <= o /\ o < end_offset)}

\* SlotSet::Iterate(callback): visits every offset of the page unit once, in
\* ascending order, with its address; a REMOVE_SLOT verdict clears it.  The
\* callback is a function of <<number of the invocation, address>>; `done` is
\* the number of invocations made before this page unit.
SlotSetIterate(s, page_start, callback, done) ==
  LET offs == SortedSeq(s)
      n == Len(offs)
      kept == {offs[i] : i \in {j \in 1..n :
                 callback[<<done + j, page_start + offs[j]>>] = KEEP_SLOT}}
  IN [set |-> kept,
      new_count |-> Cardinality(kept),
      visited |-> [i \in 1..n |-> page_start + offs[i]]]

\* The entries of a sequence at the indices in K, in order.
RECURSIVE KeepIndices(_, _, _)
KeepIndices(seq, K, i) ==
  IF i > Len(seq) THEN <<>>
  ELSE (IF i \in K THEN <<seq[i]>> ELSE <<>>) \o KeepIndices(seq, K, i + 1)

\* TypedSlotSet::Insert: appends the entry.
TypedSlotSetInsert(entries, type, host_offset, offset) ==
  Append(entries, [type |-> type, host_offset |-> host_offset, offset |-> offset])

\* TypedSlotSet::Iterate(callback): visits the entries in insertion order
\* with (type, page_start + host_offset, page_start + offset); a REMOVE_SLOT
\* verdict drops the entry.  The callback is a function of
\* <<number of the invocation, type, host address, slot address>>; `done` is
\* the number of invocations made before this table.
TypedSlotSetIterate(entries, page_start, callback, done) ==
  LET n == Len(entries)
      args(i) == <<entries[i].type, page_start + entries[i].host_offset,
                   page_start + entries[i].offset>>
      K == {i \in 1..n : callback[<<done + i>> \o args(i)] = KEEP_SLOT}
  IN [entries |-> KeepIndices(entries, K, 1),
      new_count |-> Cardinality(K),
      visited |-> [i \in 1..n |-> args(i)]]

\* The slots an array of SlotSet records, as offsets within the chunk.
SlotsOf(slots) ==
  IF slots = nullptr THEN {}
  ELSE UNION {{p * kPageSize + o : o \in slots[1][p]} : p \in DOMAIN slots[1]}
\* The entries a typed table records.
EntriesOf(typed) == IF typed = nullptr THEN <<>> ELSE typed[1]

\* ------------------------------------------- RememberedSet<direction>: private
GetSlotSet(ch, d) ==
  IF d = OLD_TO_OLD THEN ch.old_to_old_slots ELSE ch.old_to_new_slots

GetTypedSlotSet(ch, d) ==
  IF d = OLD_TO_OLD THEN ch.typed_old_to_old_slots ELSE ch.typed_old_to_new_slots

\* ReleaseSlotSet with the two branches exchanged.
ReleaseSlotSet_OtherDirection(ch, d) ==
  IF d = OLD_TO_OLD THEN ReleaseOldToNewSlots(ch) ELSE ReleaseOldToOldSlots(ch)

ReleaseSlotSet(ch, d) ==
  IF d = OLD_TO_OLD THEN ReleaseOldToOldSlots(ch) ELSE ReleaseOldToNewSlots(ch)

\* ReleaseTypedSlotSet that releases the slot table of the direction.
ReleaseTypedSlotSet_ReleasesSlotSet(ch, d) ==
  IF d = OLD_TO_OLD THEN ReleaseOldToOldSlots(ch)
  ELSE ReleaseOldToNewSlots(ch)

ReleaseTypedSlotSet(ch, d) ==
  IF d = OLD_TO_OLD THEN ReleaseTypedOldToOldSlots(ch)
  ELSE ReleaseTypedOldToNewSlots(ch)

\* The chunk after the allocation; the pointer the source returns is the
\* chunk's field read again, GetSlotSet of the result.
AllocateSlotSet(ch, c, d) ==
  IF d = OLD_TO_OLD THEN AllocateOldToOldSlots(ch, c)
  ELSE AllocateOldToNewSlots(ch, c)

AllocateTypedSlotSet(ch, d) ==
  IF d = OLD_TO_OLD THEN AllocateTypedOldToOldSlots(ch)
  ELSE AllocateTypedOldToNewSlots(ch)

\* What one call did: the chunk afterwards, the arguments of every invocation
\* of the caller's callback in order, the table allocations and releases it
\* made in order, and whether a DCHECK of the call was violated.
Outcome(ch, visited, calls, dcheck) ==
  [chunk |-> ch, visited |-> visited, calls |-> calls, dcheck |-> dcheck]

\* -------------------------------------------- RememberedSet<direction>: public
\* Insert without the null check: it allocates a table on every call.
Insert_AlwaysAllocates(ch, c, d, slot_addr) ==
  LET ch1 == AllocateSlotSet(ch, c, d)
      slot_set == GetSlotSet(ch1, d)[1]
      offset == slot_addr - address(c)
      arr == [slot_set EXCEPT ![offset \div kPageSize] =
                SlotSetInsert(@, offset % kPageSize)]
  IN Outcome(StoreSlotSet(ch1, d, arr), <<>>, <<"AllocateSlotSet">>,
             ~Contains(c, slot_addr))

\* Insert(Page* page, Address slot_addr)
Insert(ch, c, d, slot_addr) ==
  LET absent == GetSlotSet(ch, d) = nullptr
      ch1 == IF absent THEN AllocateSlotSet(ch, c, d) ELSE ch
      slot_set == GetSlotSet(ch1, d)[1]
      offset == slot_addr - address(c)
      arr == [slot_set EXCEPT ![offset \div kPageSize] =
                SlotSetInsert(@, offset % kPageSize)]
  IN Outcome(StoreSlotSet(ch1, d, arr), <<>>,
             IF absent THEN <<"AllocateSlotSet">> ELSE <<>>,
             ~Contains(c, slot_addr))

\* Remove that always works on the first SlotSet of the array.
Remove_FirstPageUnit(ch, c, d, slot_addr) ==
  LET slot_set == GetSlotSet(ch, d)
      offset == slot_addr - address(c)
  IN IF slot_set # nullptr
     THEN Outcome(StoreSlotSet(ch, d,
                    [slot_set[1] EXCEPT ![0] =
                       SlotSetRemove(@, offset % kPageSize)]),
                  <<>>, <<>>, ~Contains(c, slot_addr))
     ELSE Outcome(ch, <<>>, <<>>, ~Contains(c, slot_addr))

\* Remove that releases the table when it removed its last slot.
Remove_ReleasesEmptyTable(ch, c, d, slot_addr) ==
  LET slot_set == GetSlotSet(ch, d)
      offset == slot_addr - address(c)
      arr == [slot_set[1] EXCEPT ![offset \div kPageSize] =
                SlotSetRemove(@, offset % kPageSize)]
  IN IF slot_set # nullptr
     THEN IF \A p \in DOMAIN arr : arr[p] = {}
          THEN Outcome(ReleaseSlotSet(ch, d), <<>>, <<"ReleaseSlotSet">>,
                       ~Contains(c, slot_addr))
          ELSE Outcome(StoreSlotSet(ch, d, arr), <<>>, <<>>,
                       ~Contains(c, slot_addr))
     ELSE Outcome(ch, <<>>, <<>>, ~Contains(c, slot_addr))

\* Remove(Page* page, Address slot_addr)
Remove(ch, c, d, slot_addr) ==
  LET slot_set == GetSlotSet(ch, d)
      offset == slot_addr - address(c)
  IN IF slot_set # nullptr
     THEN Outcome(StoreSlotSet(ch, d,
                    [slot_set[1] EXCEPT ![offset \div kPageSize] =
                       SlotSetRemove(@, offset % kPageSize)]),
                  <<>>, <<>>, ~Contains(c, slot_addr))
     ELSE Outcome(ch, <<>>, <<>>, ~Contains(c, slot_addr))

\* RemoveRange with the end of the range taken as inclusive.
RemoveRange_ClosedRange(ch, c, d, start, end, debug) ==
  LET slot_set == GetSlotSet(ch, d)
      start_offset == start - address(c)
      end_offset == end - address(c)
      failed == ~(start_offset < end_offset) \/ ~(end_offset <= kPageSize)
  IN IF slot_set # nullptr
     THEN IF failed /\ debug
          THEN Outcome(ch, <<>>, <<>>, TRUE)
          ELSE Outcome(StoreSlotSet(ch, d,
                         [slot_set[1] EXCEPT ![0] =
                            SlotSetRemoveRange(@, start_offset, end_offset + 1)]),
                       <<>>, <<>>, failed)
     ELSE Outcome(ch, <<>>, <<>>, FALSE)

\* RemoveRange without the DCHECK on the end offset, removing the range from
\* every page unit of the chunk.
RemoveRange_AllPageUnits(ch, c, d, start, end, debug) ==
  LET slot_set == GetSlotSet(ch, d)
      start_offset == start - address(c)
      end_offset == end - address(c)
  IN IF slot_set # nullptr
     THEN Outcome(StoreSlotSet(ch, d,
                    [p \in DOMAIN slot_set[1] |->
                       SlotSetRemoveRange(slot_set[1][p],
                                          start_offset - p * kPageSize,
                                          end_offset - p * kPageSize)]),
                  <<>>, <<>>, FALSE)
     ELSE Outcome(ch, <<>>, <<>>, FALSE)

\* RemoveRange(Page* page, Address start, Address end).  In a build with
\* DCHECKs a violated DCHECK ends the process before the delegation; in a
\* build without them the call goes on to slot_set->RemoveRange, the
\* RemoveRange of the first SlotSet of the array.
RemoveRange(ch, c, d, start, end, debug) ==
  LET slot_set == GetSlotSet(ch, d)
      start_offset == start - address(c)
      end_offset == end - address(c)
      failed == ~(start_offset < end_offset) \/ ~(end_offset <= kPageSize)
  IN IF slot_set # nullptr
     THEN IF failed /\ debug
          THEN Outcome(ch, <<>>, <<>>, TRUE)
          ELSE Outcome(StoreSlotSet(ch, d,
                         [slot_set[1] EXCEPT ![0] =
                            SlotSetRemoveRange(@, start_offset, end_offset)]),
                       <<>>, <<>>, failed)
     ELSE Outcome(ch, <<>>, <<>>, FALSE)

\* The loop of Iterate(MemoryChunk*, Callback) from page unit `page` on:
\* new_count += slots[page].Iterate(callback).
RECURSIVE IteratePages(_, _, _, _, _, _)
IteratePages(arr, c, callback, done, page, acc) ==
  IF page < Pages(c)
  THEN LET r == SlotSetIterate(arr[page], address(c) + page * kPageSize,
                               callback, done + Len(acc.visited))
       IN IteratePages(arr, c, callback, done, page + 1,
                       [arr |-> [acc.arr EXCEPT ![page] = r.set],
                        new_count |-> acc.new_count + r.new_count,
                        visited |-> acc.visited \o r.visited])
  ELSE acc

\* Iterate that releases the table on the retained count of the last page
\* unit instead of the sum over the page units.
Iterate_CountOfLastPageUnit(ch, c, d, callback, done) ==
  LET slots == GetSlotSet(ch, d)
  IN IF slots # nullptr
     THEN LET r == IteratePages(slots[1], c, callback, done, 0,
                                [arr |-> slots[1], new_count |-> 0,
                                 visited |-> <<>>])
              ch1 == StoreSlotSet(ch, d, r.arr)
          IN IF Cardinality(r.arr[Pages(c) - 1]) = 0
             THEN Outcome(ReleaseSlotSet(ch1, d), r.visited,
                          <<"ReleaseSlotSet">>, FALSE)
             ELSE Outcome(ch1, r.visited, <<>>, FALSE)
     ELSE Outcome(ch, <<>>, <<>>, FALSE)

\* Iterate that keeps a table it found with no slot in it.
Iterate_KeepsEmptyTable(ch, c, d, callback, done) ==
  LET slots == GetSlotSet(ch, d)
  IN IF slots # nullptr
     THEN LET r == IteratePages(slots[1], c, callback, done, 0,
                                [arr |-> slots[1], new_count |-> 0,
                                 visited |-> <<>>])
              ch1 == StoreSlotSet(ch, d, r.arr)
          IN IF r.new_count = 0 /\ r.visited # <<>>
             THEN Outcome(ReleaseSlotSet(ch1, d), r.visited,
                          <<"ReleaseSlotSet">>, FALSE)
             ELSE Outcome(ch1, r.visited, <<>>, FALSE)
     ELSE Outcome(ch, <<>>, <<>>, FALSE)

\* Iterate that never releases the table.
Iterate_NoRelease(ch, c, d, callback, done) ==
  LET slots == GetSlotSet(ch, d)
  IN IF slots # nullptr
     THEN LET r == IteratePages(slots[1], c, callback, done, 0,
                                [arr |-> slots[1], new_count |-> 0,
                                 visited |-> <<>>])
          IN Outcome(StoreSlotSet(ch, d, r.arr), r.visited, <<>>, FALSE)
     ELSE Outcome(ch, <<>>, <<>>, FALSE)

\* Iterate(MemoryChunk* chunk, Callback callback); `done` is the number of
\* invocations of the callback made before this call.
Iterate(ch, c, d, callback, done) ==
  LET slots == GetSlotSet(ch, d)
  IN IF slots # nullptr
     THEN LET r == IteratePages(slots[1], c, callback, done, 0,
                                [arr |-> slots[1], new_count |-> 0,
                                 visited |-> <<>>])
              ch1 == StoreSlotSet(ch, d, r.arr)
          IN IF r.new_count = 0
             THEN Outcome(ReleaseSlotSet(ch1, d), r.visited,
                          <<"ReleaseSlotSet">>, FALSE)
             ELSE Outcome(ch1, r.visited, <<>>, FALSE)
     ELSE Outcome(ch, <<>>, <<>>, FALSE)

\* InsertTyped that records nothing when the table holds an equal entry.
InsertTyped_Deduplicating(ch, c, d, host_addr, slot_type, slot_addr, debug) ==
  LET absent == GetTypedSlotSet(ch, d) = nullptr
      ch1 == IF absent THEN AllocateTypedSlotSet(ch, d) ELSE ch
      slot_set == GetTypedSlotSet(ch1, d)[1]
      host == IF host_addr = NullAddress THEN address(c) ELSE host_addr
      offset == slot_addr - address(c)
      host_offset == host - address(c)
      failed == ~(offset < kMaxOffset) \/ ~(host_offset < kMaxOffset)
      calls == IF absent THEN <<"AllocateTypedSlotSet">> ELSE <<>>
      entry == [type |-> slot_type, host_offset |-> host_offset, offset |-> offset]
  IN IF (failed /\ debug) \/ (\E i \in DOMAIN slot_set : slot_set[i] = entry)
     THEN Outcome(ch1, <<>>, calls, failed)
     ELSE Outcome(StoreTypedSlotSet(ch1, d,
                    TypedSlotSetInsert(slot_set, slot_type, host_offset, offset)),
                  <<>>, calls, failed)

\* InsertTyped with the two offsets passed to TypedSlotSet::Insert exchanged.
InsertTyped_OffsetsExchanged(ch, c, d, host_addr, slot_type, slot_addr, debug) ==
  LET absent == GetTypedSlotSet(ch, d) = nullptr
      ch1 == IF absent THEN AllocateTypedSlotSet(ch, d) ELSE ch
      slot_set == GetTypedSlotSet(ch1, d)[1]
      host == IF host_addr = NullAddress THEN address(c) ELSE host_addr
      offset == slot_addr - address(c)
      host_offset == host - address(c)
      failed == ~(offset < kMaxOffset) \/ ~(host_offset < kMaxOffset)
      calls == IF absent THEN <<"AllocateTypedSlotSet">> ELSE <<>>
  IN IF failed /\ debug
     THEN Outcome(ch1, <<>>, calls, TRUE)
     ELSE Outcome(StoreTypedSlotSet(ch1, d,
                    TypedSlotSetInsert(slot_set, slot_type, offset, host_offset)),
                  <<>>, calls, failed)

\* InsertTyped(Page* page, Address host_addr, SlotType slot_type,
\*             Address slot_addr).  The table is allocated before the DCHECKs.
InsertTyped(ch, c, d, host_addr, slot_type, slot_addr, debug) ==
  LET absent == GetTypedSlotSet(ch, d) = nullptr
      ch1 == IF absent THEN AllocateTypedSlotSet(ch, d) ELSE ch
      slot_set == GetTypedSlotSet(ch1, d)[1]
      host == IF host_addr = NullAddress THEN address(c) ELSE host_addr
      offset == slot_addr - address(c)
      host_offset == host - address(c)
      failed == ~(offset < kMaxOffset) \/ ~(host_offset < kMaxOffset)
      calls == IF absent THEN <<"AllocateTypedSlotSet">> ELSE <<>>
  IN IF failed /\ debug
     THEN Outcome(ch1, <<>>, calls, TRUE)
     ELSE Outcome(StoreTypedSlotSet(ch1, d,
                    TypedSlotSetInsert(slot_set, slot_type, host_offset, offset)),
                  <<>>, calls, failed)

\* The arguments a typed callback can get for chunk c.
TypedCallbackArgs(c) ==
  (1..(MaxEntries + MaxTyped + 2)) \X SlotTypes
    \X (address(c)..(address(c) + size(c)))
    \X (address(c)..(address(c) + size(c)))

\* RemoveRangeTyped(Page* page, Address start, Address end): the lambda it
\* passes to TypedSlotSet::Iterate; the retained count is dropped.
RemoveRangeTyped(ch, c, d, start, end) ==
  LET slots == GetTypedSlotSet(ch, d)
      lambda == [x \in TypedCallbackArgs(c) |->
                   IF start <= x[4] /\ x[4] < end THEN REMOVE_SLOT
                   ELSE KEEP_SLOT]
  IN IF slots # nullptr
     THEN Outcome(StoreTypedSlotSet(ch, d,
                    TypedSlotSetIterate(slots[1], address(c), lambda, 0).entries),
                  <<>>, <<>>, FALSE)
     ELSE Outcome(ch, <<>>, <<>>, FALSE)

\* IterateTyped without the null check: an absent table counts as retaining
\* nothing and is released.
IterateTyped_NoNullCheck(ch, c, d, callback, done) ==
  LET slots == GetTypedSlotSet(ch, d)
      r == TypedSlotSetIterate(EntriesOf(slots), address(c), callback, done)
      ch1 == IF slots # nullptr THEN StoreTypedSlotSet(ch, d, r.entries) ELSE ch
  IN IF r.new_count = 0
     THEN Outcome(ReleaseTypedSlotSet(ch1, d), r.visited,
                  <<"ReleaseTypedSlotSet">>, FALSE)
     ELSE Outcome(ch1, r.visited, <<>>, FALSE)

\* IterateTyped that keeps the table when no entry is retained.
IterateTyped_NoRelease(ch, c, d, callback, done) ==
  LET slots == GetTypedSlotSet(ch, d)
  IN IF slots # nullptr
     THEN LET r == TypedSlotSetIterate(slots[1], address(c), callback, done)
          IN Outcome(StoreTypedSlotSet(ch, d, r.entries), r.visited, <<>>, FALSE)
     ELSE Outcome(ch, <<>>, <<>>, FALSE)

\* IterateTyped(MemoryChunk* chunk, Callback callback); `done` as in Iterate.
IterateTyped(ch, c, d, callback, done) ==
  LET slots == GetTypedSlotSet(ch, d)
  IN IF slots # nullptr
     THEN LET r == TypedSlotSetIterate(slots[1], address(c), callback, done)
              ch1 == StoreTypedSlotSet(ch, d, r.entries)
          IN IF r.new_count = 0
             THEN Outcome(ReleaseTypedSlotSet(ch1, d), r.visited,
                          <<"ReleaseTypedSlotSet">>, FALSE)
             ELSE Outcome(ch1, r.visited, <<>>, FALSE)
     ELSE Outcome(ch, <<>>, <<>>, FALSE)

\* IterateMemoryChunks that enters a chunk only when it has both tables.
RECURSIVE IterateMemoryChunks_BothTables(_, _, _, _, _, _)
IterateMemoryChunks_BothTables(chs, d, untyped, callback, i, acc) ==
  IF i > Len(ChunkOrder) THEN acc
  ELSE LET chunk == ChunkOrder[i]
       IN IF chunk \in DOMAIN chs
             /\ GetSlotSet(acc.chunks[chunk], d) # nullptr
             /\ GetTypedSlotSet(acc.chunks[chunk], d) # nullptr
          THEN LET r == IF untyped
                        THEN Iterate(acc.chunks[chunk], chunk, d, callback,
                                     Len(acc.visited))
                        ELSE IterateTyped(acc.chunks[chunk], chunk, d, callback,
                                          Len(acc.visited))
               IN IterateMemoryChunks_BothTables(chs, d, untyped, callback, i + 1,
                    [chunks |-> [acc.chunks EXCEPT ![chunk] = r.chunk],
                     visited |-> acc.visited \o r.visited,
                     calls |-> acc.calls \o r.calls,
                     entered |-> Append(acc.entered, chunk)])
          ELSE IterateMemoryChunks_BothTables(chs, d, untyped, callback, i + 1,
                                              acc)

\* IterateMemoryChunks(Heap* heap, Callback callback) from the i-th chunk of
\* the MemoryChunkIterator on, with the callback Iterate(heap, callback)
\* (untyped = TRUE) or IterateTyped(heap, callback) passes to it.
RECURSIVE IterateMemoryChunks(_, _, _, _, _, _)
IterateMemoryChunks(chs, d, untyped, callback, i, acc) ==
  IF i > Len(ChunkOrder) THEN acc
  ELSE LET chunk == ChunkOrder[i]
       IN IF chunk \in DOMAIN chs
             /\ (GetSlotSet(acc.chunks[chunk], d) # nullptr
                 \/ GetTypedSlotSet(acc.chunks[chunk], d) # nullptr)
          THEN LET r == IF untyped
                        THEN Iterate(acc.chunks[chunk], chunk, d, callback,
                                     Len(acc.visited))
                        ELSE IterateTyped(acc.chunks[chunk], chunk, d, callback,
                                          Len(acc.visited))
               IN IterateMemoryChunks(chs, d, untyped, callback, i + 1,
                    [chunks |-> [acc.chunks EXCEPT ![chunk] = r.chunk],
                     visited |-> acc.visited \o r.visited,
                     calls |-> acc.calls \o r.calls,
                     entered |-> Append(acc.entered, chunk)])
          ELSE IterateMemoryChunks(chs, d, untyped, callback, i + 1, acc)

\* Iterate(Heap* heap, Callback callback)
IterateHeap(chs, d, callback) ==
  IterateMemoryChunks(chs, d, TRUE, callback, 1,
    [chunks |-> chs, visited |-> <<>>, calls |-> <<>>, entered |-> <<>>])

\* IterateTyped(Heap* heap, Callback callback)
IterateTypedHeap(chs, d, callback) ==
  IterateMemoryChunks(chs, d, FALSE, callback, 1,
    [chunks |-> chs, visited |-> <<>>, calls |-> <<>>, entered |-> <<>>])

\* ClearAll that releases the untyped tables only.
ClearAll_SlotsOnly(chs) ==
  [chunks |-> [chunk \in DOMAIN chs |-> ReleaseOldToOldSlots(chs[chunk])],
   visited |-> <<>>,
   calls |-> <<"ReleaseOldToOldSlots">>,
   entered |-> <<>>]

\* ClearAll(Heap* heap): only RememberedSet<OLD_TO_OLD> has it
\* (STATIC_ASSERT(direction == OLD_TO_OLD)).
ClearAll(chs) ==
  [chunks |-> [chunk \in DOMAIN chs |->
                 ReleaseTypedOldToOldSlots(ReleaseOldToOldSlots(chs[chunk]))],
   visited |-> <<>>,
   calls |-> <<"ReleaseOldToOldSlots", "ReleaseTypedOldToOldSlots">>,
   entered |-> <<>>]

\* IsValidSlot(Heap* heap, MemoryChunk* chunk, Object** slot), declared only:
\* the liveness predicate, `valid` being the slot addresses whose containing
\* object is reachable.
IsValidSlot(valid, c, slot) == slot \in valid

\* The slot addresses the slot table `slots` of chunk c records.
SlotAddressesOf(c, slots) == {address(c) + o : o \in SlotsOf(slots)}

\* ClearInvalidSlots that filters the first page unit of each chunk only.
ClearInvalidSlots_FirstPageUnitOnly(chs, d, valid) ==
  [chunks |->
     [c \in DOMAIN chs |->
        IF GetSlotSet(chs[c], d) = nullptr THEN chs[c]
        ELSE StoreSlotSet(chs[c], d,
               [p \in DOMAIN GetSlotSet(chs[c], d)[1] |->
                  IF p # 0 THEN GetSlotSet(chs[c], d)[1][p]
                  ELSE {o \in GetSlotSet(chs[c], d)[1][p] :
                          IsValidSlot(valid, c, address(c) + p * kPageSize + o)}])],
   visited |-> <<>>, calls |-> <<>>, entered |-> <<>>]

\* ClearInvalidSlots(Heap* heap), declared only: drops every recorded slot
\* that is not valid, on every chunk that has a slot table.
ClearInvalidSlots(chs, d, valid) ==
  [chunks |->
     [c \in DOMAIN chs |->
        IF GetSlotSet(chs[c], d) = nullptr THEN chs[c]
        ELSE StoreSlotSet(chs[c], d,
               [p \in DOMAIN GetSlotSet(chs[c], d)[1] |->
                  {o \in GetSlotSet(chs[c], d)[1][p] :
                     IsValidSlot(valid, c, address(c) + p * kPageSize + o)}])],
   visited |-> <<>>, calls |-> <<>>, entered |-> <<>>]

\* VerifyValidSlots(Heap* heap), declared only: changes nothing and signals a
\* failure when a recorded slot is not valid.
VerifyValidSlots(chs, d, valid) ==
  [chunks |-> chs, visited |-> <<>>, calls |-> <<>>, entered |-> <<>>,
   failed |-> \E c \in DOMAIN chs :
                \E slot \in SlotAddressesOf(c, GetSlotSet(chs[c], d)) :
                  ~IsValidSlot(valid, c, slot)]

\* --------------------------------------------------- UpdateTypedSlotHelper
\* The heap objects a typed slot can refer to.
Objects == 1..MaxObject

\* An untyped slot callback, (Object**) -> SlotCallbackResult: for the object
\* it finds at the location, the object it leaves there and its verdict.
Callbacks == [Objects -> [result : Verdicts, object : Objects]]

\* The codec of relocatable references (RelocInfo, Code, Cell): a code target,
\* a debug call address and a code entry are the instruction start of the
\* Code object, kHeaderSize past the object; a cell reference is the address
\* of the cell's value, kValueOffset past the cell; an embedded object is
\* stored as it is.
kHeaderSize == 2
kValueOffset == 1
GetCodeFromTargetAddress(target_address) == target_address - kHeaderSize
GetObjectFromEntryAddress(entry_address) == entry_address - kHeaderSize
instruction_start(code) == code + kHeaderSize
target_cell(word) == word - kValueOffset
set_target_cell(cell) == cell + kValueOffset
target_object(word) == word
set_target_object(target) == target

\* What one update did: the value returned, the word at the slot afterwards,
\* the objects the callback was invoked with in order, and the calls of the
\* codec in order.
UpdateOutcome(result, word, visited, calls) ==
  [result |-> result, word |-> word, visited |-> visited, calls |-> calls]

\* UpdateCell(RelocInfo* rinfo, Callback callback)
UpdateCell(word, callback) ==
  LET old_cell == target_cell(word)
      r == callback[old_cell]
  IN IF r.object # old_cell
     THEN UpdateOutcome(r.result, set_target_cell(r.object), <<old_cell>>,
                        <<"target_cell", "set_target_cell">>)
     ELSE UpdateOutcome(r.result, word, <<old_cell>>, <<"target_cell">>)

\* UpdateCodeEntry(Address entry_address, Callback callback)
UpdateCodeEntry(word, callback) ==
  LET old_code == GetObjectFromEntryAddress(word)
      r == callback[old_code]
  IN IF r.object # old_code
     THEN UpdateOutcome(r.result, instruction_start(r.object), <<old_code>>,
                        <<"GetObjectFromEntryAddress", "Address_at">>)
     ELSE UpdateOutcome(r.result, word, <<old_code>>,
                        <<"GetObjectFromEntryAddress">>)

\* UpdateCodeTarget that writes the target address back in every case.
UpdateCodeTarget_AlwaysWrites(word, callback) ==
  LET old_target == GetCodeFromTargetAddress(word)
      r == callback[old_target]
  IN UpdateOutcome(r.result, instruction_start(r.object), <<old_target>>,
                   <<"target_address", "set_target_address">>)

\* UpdateCodeTarget(RelocInfo* rinfo, Callback callback)
UpdateCodeTarget(word, callback) ==
  LET old_target == GetCodeFromTargetAddress(word)
      r == callback[old_target]
  IN IF r.object # old_target
     THEN UpdateOutcome(r.result, instruction_start(r.object), <<old_target>>,
                        <<"target_address", "set_target_address">>)
     ELSE UpdateOutcome(r.result, word, <<old_target>>, <<"target_address">>)

\* UpdateEmbeddedPointer(RelocInfo* rinfo, Callback callback)
UpdateEmbeddedPointer(word, callback) ==
  LET old_target == target_object(word)
      r == callback[old_target]
  IN IF r.object # old_target
     THEN UpdateOutcome(r.result, set_target_object(r.object), <<old_target>>,
                        <<"target_object", "set_target_object">>)
     ELSE UpdateOutcome(r.result, word, <<old_target>>, <<"target_object">>)

\* UpdateDebugTarget(RelocInfo* rinfo, Callback callback): no old value is
\* kept, the debug call address is set after every callback.
UpdateDebugTarget(word, callback) ==
  LET target == GetCodeFromTargetAddress(word)
      r == callback[target]
  IN UpdateOutcome(r.result, instruction_start(r.object), <<target>>,
                   <<"debug_call_address", "set_debug_call_address">>)

\* UpdateTypedSlot that treats an unpatched debug break slot as a patched one.
UpdateTypedSlot_NoPatchedTest(slot_type, word, patched, callback) ==
  CASE slot_type = CODE_TARGET_SLOT -> UpdateCodeTarget(word, callback)
    [] slot_type = CELL_TARGET_SLOT -> UpdateCell(word, callback)
    [] slot_type = CODE_ENTRY_SLOT -> UpdateCodeEntry(word, callback)
    [] slot_type = DEBUG_TARGET_SLOT ->
         LET r == UpdateDebugTarget(word, callback)
         IN [r EXCEPT !.calls = <<"IsPatchedDebugBreakSlotSequence">> \o @]
    [] slot_type = EMBEDDED_OBJECT_SLOT -> UpdateEmbeddedPointer(word, callback)
    [] slot_type = OBJECT_SLOT ->
         UpdateOutcome(callback[word].result, callback[word].object,
                       <<word>>, <<>>)

\* UpdateTypedSlot(Isolate* isolate, SlotType slot_type, Address addr,
\*                 Callback callback), for the six slot types; `word` is what
\* is stored at addr and `patched` what IsPatchedDebugBreakSlotSequence
\* reports there.  For OBJECT_SLOT the callback works on the location itself.
UpdateTypedSlot(slot_type, word, patched, callback) ==
  CASE slot_type = CODE_TARGET_SLOT -> UpdateCodeTarget(word, callback)
    [] slot_type = CELL_TARGET_SLOT -> UpdateCell(word, callback)
    [] slot_type = CODE_ENTRY_SLOT -> UpdateCodeEntry(word, callback)
    [] slot_type = DEBUG_TARGET_SLOT ->
         IF patched
         THEN LET r == UpdateDebugTarget(word, callback)
              IN [r EXCEPT !.calls = <<"IsPatchedDebugBreakSlotSequence">> \o @]
         ELSE UpdateOutcome(REMOVE_SLOT, word, <<>>,
                            <<"IsPatchedDebugBreakSlotSequence">>)
    [] slot_type = EMBEDDED_OBJECT_SLOT -> UpdateEmbeddedPointer(word, callback)
    [] slot_type = OBJECT_SLOT ->
         UpdateOutcome(callback[word].result, callback[word].object,
                       <<word>>, <<>>)

\* The word a slot of the given type holds when it refers to object.
SlotWord(slot_type, object) ==
  CASE slot_type \in {CODE_TARGET_SLOT, CODE_ENTRY_SLOT, DEBUG_TARGET_SLOT} ->
         instruction_start(object)
    [] slot_type = CELL_TARGET_SLOT -> set_target_cell(object)
    [] slot_type = EMBEDDED_OBJECT_SLOT -> set_target_object(object)
    [] slot_type = OBJECT_SLOT -> object

\* ------------------------------------------------------------------- state
VARIABLES
  chunks,   \* the heap: chunk -> its MemoryChunk table pointers
  status,   \* "running" while no DCHECK has been violated; once one has,
            \* "fatal" (the build has DCHECKs: the process has ended) or
            \* "unchecked" (the build has none: the call went on)
  last,     \* history: the call just made (operation, direction, chunk,
            \* arguments, the verdicts the caller's policy gave, what the
            \* call did), NoCall between two calls
  pre,      \* history: the heap before the call just made
  prev,     \* history: the call made before it, as `last` recorded it, when
            \* that call was the first insert into an absent table
  target,   \* concurrent inserts: the chunk, the direction and the kind of
            \* table (typed or not) the threads insert into
  shared,   \* concurrent inserts: the MemoryChunk of that chunk, each of its
            \* table pointers null or <<the id of a table>>
  tables,   \* concurrent inserts: table id -> content, for every table
            \* allocated so far, attached to the chunk or not
  threads,  \* concurrent inserts: thread -> its position in Insert or
            \* InsertTyped, its arguments and its local `slot_set` pointer
  memory,   \* typed slot update: the kind of the slot UpdateTypedSlot is
            \* called on, the word stored at the slot and whether the debug
            \* break slot sequence there is patched
  updated,  \* history: the last UpdateTypedSlot call (what the slot held,
            \* the callback, what the call returned and did)
  live      \* the liveness predicate of the heap, as marking left it: the
            \* slot addresses whose containing object is reachable

seqVars == <<chunks, status, last, pre, prev>>
threadVars == <<target, shared, tables, threads>>
updateVars == <<memory, updated>>
vars ==
  <<chunks, status, last, pre, prev, target, shared, tables, threads,
    memory, updated, live>>

NoCall ==
  [op |-> "none", dir |-> "none", chunk |-> "none", args |-> <<>>,
   policy |-> <<>>, visited |-> <<>>, calls |-> <<>>, dcheck |-> FALSE]

\* No typed slot is being updated.
NoMemory == [slot_type |-> "none", word |-> 0, patched |-> FALSE]
NoUpdate ==
  [slot_type |-> "none", word |-> 0, patched |-> FALSE, callback |-> <<>>,
   result |-> "none", visited |-> <<>>, calls |-> <<>>]

\* No thread is inserting concurrently.
NoTarget == [chunk |-> "none", dir |-> "none", typed |-> FALSE]

\* A heap of one chunk, a regular page or a large chunk, with no table; the
\* calls are made one after the other.
Init ==
  /\ \E c \in Chunks : chunks = [x \in {c} |-> EmptyChunk]
  /\ status = "running"
  /\ last = NoCall
  /\ pre = chunks
  /\ prev = NoCall
  /\ target = NoTarget
  /\ shared = EmptyChunk
  /\ tables = <<>>
  /\ threads = <<>>
  /\ memory = NoMemory
  /\ updated = NoUpdate
  /\ live = {}

\* The builds a call can be running in: with DCHECKs (TRUE) or without.
Builds == IF status = "unchecked" THEN {FALSE} ELSE BOOLEAN

\* A call on one chunk with outcome r, in a build with DCHECKs or without.
Call(op, d, c, args, policy, debug, r) ==
  /\ status # "fatal"
  /\ last = NoCall
  /\ chunks' = [chunks EXCEPT ![c] = r.chunk]
  /\ pre' = chunks
  /\ last' = [op |-> op, dir |-> d, chunk |-> c, args |-> args,
              policy |-> policy, visited |-> r.visited, calls |-> r.calls,
              dcheck |-> r.dcheck]
  /\ status' = IF r.dcheck THEN (IF debug THEN "fatal" ELSE "unchecked")
               ELSE status
  /\ UNCHANGED prev
  /\ UNCHANGED <<threadVars, updateVars, live>>

\* A call on the whole heap with outcome r.
HeapCall(op, d, policy, r) ==
  /\ status # "fatal"
  /\ last = NoCall
  /\ chunks' = r.chunks
  /\ pre' = chunks
  /\ last' = [op |-> op, dir |-> d, chunk |-> "heap", args |-> <<>>,
              policy |-> policy, visited |-> r.visited, calls |-> r.calls,
              dcheck |-> FALSE]
  /\ UNCHANGED <<status, prev>>
  /\ UNCHANGED <<threadVars, updateVars, live>>

\* The call has returned: the history variables move on (`prev` only when it
\* is kept).  The program's state is left as it is.
Return(keep) ==
  /\ last # NoCall
  /\ last' = NoCall
  /\ pre' = chunks
  /\ prev' = IF keep /\ last.op \in {"Insert", "InsertTyped"} /\ last.calls # <<>>
             THEN last ELSE NoCall
  /\ UNCHANGED <<chunks, status>>
  /\ UNCHANGED <<threadVars, updateVars, live>>

\* ------------------------------------------------------------ the counters
RECURSIVE SumOver(_, _)
SumOver(f, S) ==
  IF S = {} THEN 0
  ELSE LET x == CHOOSE y \in S : TRUE IN f[x] + SumOver(f, S \ {x})


NumSlots(ch, d) == Cardinality(SlotsOf(GetSlotSet(ch, d)))
NumTyped(ch, d) == Len(EntriesOf(GetTypedSlotSet(ch, d)))
TotalTyped(chs) ==
  SumOver([x \in (DOMAIN chs) \X Directions |-> NumTyped(chs[x[1]], x[2])],
          (DOMAIN chs) \X Directions)
TotalEntries(chs) ==
  TotalTyped(chs)
  + SumOver([x \in (DOMAIN chs) \X Directions |-> NumSlots(chs[x[1]], x[2])],
            (DOMAIN chs) \X Directions)

\* ----------------------------------------------------------- the callers
\* The numbers an invocation of a callback can have within one call.
CallbackNumbers == 1..(MaxEntries + MaxTyped + kPageSize + LargeChunkSize)
AllAddresses == UNION {address(c)..(address(c) + size(c)) : c \in Chunks}

\* The caller's policy as the callback of an untyped / a typed iteration: the
\* i-th invocation gets the i-th verdict of `policy`.
SlotCallback(policy) ==
  [x \in CallbackNumbers \X AllAddresses |->
     IF x[1] \in DOMAIN policy THEN policy[x[1]] ELSE KEEP_SLOT]
TypedCallback(policy) ==
  [x \in CallbackNumbers \X SlotTypes \X AllAddresses \X AllAddresses |->
     IF x[1] \in DOMAIN policy THEN policy[x[1]] ELSE KEEP_SLOT]

\* The host addresses callers pass: none, the chunk base, an object in the
\* chunk.
HostAddresses(c) == {NullAddress, address(c), address(c) + 1}
\* The slot addresses callers pass to InsertTyped: the last one below the
\* packing limit and the first one at it.
TypedSlotAddresses(c) ==
  {a \in Addresses(c) : kMaxOffset <= a - address(c) + 1
                        /\ a - address(c) <= kMaxOffset}
\* The range bounds callers pass: start < end, both within the chunk bounds.
RangeBounds(c) == address(c)..(address(c) + size(c))

CallInsert(c, d) ==
  \E slot_addr \in Addresses(c) :
    Call("Insert", d, c, <<slot_addr>>, <<>>, FALSE,
         Insert(chunks[c], c, d, slot_addr))

CallRemove(c, d) ==
  \E slot_addr \in Addresses(c) :
    Call("Remove", d, c, <<slot_addr>>, <<>>, FALSE,
         Remove(chunks[c], c, d, slot_addr))

CallRemoveRange(c, d) ==
  \E start \in RangeBounds(c), end \in RangeBounds(c), debug \in Builds :
    /\ start < end
    /\ Call("RemoveRange", d, c, <<start, end>>, <<>>, debug,
            RemoveRange(chunks[c], c, d, start, end, debug))

CallIterate(c, d) ==
  \E policy \in [1..NumSlots(chunks[c], d) -> Verdicts] :
    Call("Iterate", d, c, <<>>, policy, FALSE,
         Iterate(chunks[c], c, d, SlotCallback(policy), 0))

CallInsertTyped(c, d, hosts, types) ==
  \E host_addr \in hosts, slot_type \in types,
     slot_addr \in TypedSlotAddresses(c), debug \in Builds :
    Call("InsertTyped", d, c, <<host_addr, slot_type, slot_addr>>, <<>>, debug,
         InsertTyped(chunks[c], c, d, host_addr, slot_type, slot_addr, debug))

CallRemoveRangeTyped(c, d) ==
  \E start \in RangeBounds(c), end \in RangeBounds(c) :
    /\ start < end
    /\ Call("RemoveRangeTyped", d, c, <<start, end>>, <<>>, FALSE,
            RemoveRangeTyped(chunks[c], c, d, start, end))

CallIterateTyped(c, d) ==
  \E policy \in [1..NumTyped(chunks[c], d) -> Verdicts] :
    Call("IterateTyped", d, c, <<>>, policy, FALSE,
         IterateTyped(chunks[c], c, d, TypedCallback(policy), 0))

CallIterateHeap(d) ==
  \E policy \in [1..SumOver([c \in DOMAIN chunks |-> NumSlots(chunks[c], d)],
                            DOMAIN chunks) -> Verdicts] :
    HeapCall("IterateHeap", d, policy,
             IterateHeap(chunks, d, SlotCallback(policy)))

CallIterateTypedHeap(d) ==
  \E policy \in [1..SumOver([c \in DOMAIN chunks |-> NumTyped(chunks[c], d)],
                            DOMAIN chunks) -> Verdicts] :
    HeapCall("IterateTypedHeap", d, policy,
             IterateTypedHeap(chunks, d, TypedCallback(policy)))

CallClearAll ==
  HeapCall("ClearAll", OLD_TO_OLD, <<>>, ClearAll(chunks))

\* ------------------------------------------------------ the specifications
\* Every operation, both directions and both kinds of table; the callers
\* record at most MaxEntries entries at one time.
Next ==
  \/ \E c \in DOMAIN chunks, d \in Directions :
       \/ TotalEntries(chunks) < MaxEntries /\ CallInsert(c, d)
       \/ CallRemove(c, d)
       \/ CallRemoveRange(c, d)
       \/ CallIterate(c, d)
       \/ /\ TotalEntries(chunks) < MaxEntries
          /\ CallInsertTyped(c, d, {NullAddress, address(c) + 1}, {OBJECT_SLOT})
       \/ CallRemoveRangeTyped(c, d)
       \/ CallIterateTyped(c, d)
  \/ \E d \in Directions : CallIterateHeap(d) \/ CallIterateTypedHeap(d)
  \/ CallClearAll
  \/ Return(FALSE)

Spec == Init /\ [][Next]_vars

\* The untyped operations alone, both directions, any number of slots.
NextSlots ==
  \/ \E c \in DOMAIN chunks, d \in Directions :
       \/ CallInsert(c, d)
       \/ CallRemove(c, d)
       \/ CallRemoveRange(c, d)
       \/ CallIterate(c, d)
  \/ Return(TRUE)

SpecSlots == Init /\ [][NextSlots]_vars

\* The typed operations alone, both directions; the callers record at most
\* MaxTyped typed entries at one time.
NextTyped ==
  \/ \E c \in DOMAIN chunks, d \in Directions :
       \/ /\ TotalTyped(chunks) < MaxTyped
          /\ CallInsertTyped(c, d, HostAddresses(c), SlotTypes)
       \/ CallRemoveRangeTyped(c, d)
       \/ CallIterateTyped(c, d)
  \/ Return(TRUE)

SpecTyped == Init /\ [][NextTyped]_vars

\* A heap of two chunks, a regular page and a large chunk, with no table.
InitHeap ==
  /\ chunks = [c \in Chunks |-> EmptyChunk]
  /\ status = "running"
  /\ last = NoCall
  /\ pre = chunks
  /\ prev = NoCall
  /\ target = NoTarget
  /\ shared = EmptyChunk
  /\ tables = <<>>
  /\ threads = <<>>
  /\ memory = NoMemory
  /\ updated = NoUpdate
  /\ live = {}

\* The heap-wide operations on that heap, with the inserts that fill the
\* tables they work on and the removals from a table of one slot, which can
\* leave it present and empty; the callers record at most MaxEntries entries
\* at one time.
NextHeap ==
  \/ \E c \in DOMAIN chunks, d \in Directions :
       \/ TotalEntries(chunks) < MaxEntries /\ CallInsert(c, d)
       \/ NumSlots(chunks[c], d) = 1 /\ CallRemove(c, d)
       \/ /\ TotalEntries(chunks) < MaxEntries
          /\ CallInsertTyped(c, d, {NullAddress}, {OBJECT_SLOT})
  \/ \E d \in Directions : CallIterateHeap(d) \/ CallIterateTypedHeap(d)
  \/ CallClearAll
  \/ Return(FALSE)

SpecHeap == InitHeap /\ [][NextHeap]_vars

\* ----------------------------------------- concurrent Insert / InsertTyped
\* Threads that each make one call of Insert, or each one call of
\* InsertTyped, on the same chunk and direction, their steps interleaved.
\* A step is one access to the chunk's table pointer or to a table; the
\* insertion into a table is one atomic step.
Threads == 1..NumThreads

\* The table the chunk had before the threads started, if it had one.
InitialTable == 0

\* GetSlotSet(chunk) / GetTypedSlotSet(chunk) on the shared chunk.
SharedSlotSet ==
  IF target.typed THEN GetTypedSlotSet(shared, target.dir)
  ELSE GetSlotSet(shared, target.dir)

\* The content of a table just allocated for chunk c.
FreshTable(c, typed) ==
  IF typed THEN NewTypedSlotSet[1] ELSE NewSlotSetArray(c)[1]

\* MemoryChunk::Allocate*: the pointer of direction d is set to table id.
AttachTable(ch, d, typed, id) ==
  IF typed THEN StoreTypedSlotSet(ch, d, id) ELSE StoreSlotSet(ch, d, id)

\* The arguments the threads pass, all within the DCHECKs of the call.
ThreadArgs(c, typed) ==
  IF typed
  THEN {<<host, OBJECT_SLOT, slot>> :
          host \in {NullAddress, address(c) + 1},
          slot \in {a \in Addresses(c) : a - address(c) < kMaxOffset}}
  ELSE {<<slot>> : slot \in Addresses(c)}

\* The entry InsertTyped records for args on chunk c.
TypedEntry(c, args) ==
  [type |-> args[2],
   host_offset |-> (IF args[1] = NullAddress THEN address(c) ELSE args[1])
                     - address(c),
   offset |-> args[3] - address(c)]

\* The chunk has no table or an empty one; no thread has started.
InitThreads ==
  /\ \E c \in Chunks, d \in Directions, typed \in BOOLEAN, present \in BOOLEAN :
       /\ target = [chunk |-> c, dir |-> d, typed |-> typed]
       /\ chunks = [x \in {c} |-> EmptyChunk]
       /\ shared = IF present THEN AttachTable(EmptyChunk, d, typed, InitialTable)
                   ELSE EmptyChunk
       /\ tables = [id \in (IF present THEN {InitialTable} ELSE {}) |->
                      FreshTable(c, typed)]
  /\ threads = [t \in Threads |->
                  [pc |-> "call", args |-> <<>>, slot_set |-> nullptr]]
  /\ status = "running"
  /\ last = NoCall
  /\ pre = chunks
  /\ prev = NoCall
  /\ memory = NoMemory
  /\ updated = NoUpdate
  /\ live = {}

\* Thread t calls Insert / InsertTyped:
\*   SlotSet* slot_set = GetSlotSet(chunk);  if (slot_set == nullptr) ...
InsertGetSlotSet(t) ==
  /\ threads[t].pc = "call"
  /\ \E args \in ThreadArgs(target.chunk, target.typed) :
       threads' = [threads EXCEPT ![t] =
                     [pc |-> IF SharedSlotSet = nullptr THEN "allocate"
                             ELSE "insert",
                      args |-> args, slot_set |-> SharedSlotSet]]
  /\ UNCHANGED <<target, shared, tables>>
  /\ UNCHANGED <<seqVars, updateVars, live>>

\* AllocateSlotSet(chunk) / AllocateTypedSlotSet(chunk), first statement:
\* chunk->Allocate...Slots() attaches a table of its own to the chunk.
InsertAllocateSlotSet(t) ==
  /\ threads[t].pc = "allocate"
  /\ tables' = [id \in DOMAIN tables \cup {t} |->
                  IF id = t THEN FreshTable(target.chunk, target.typed)
                  ELSE tables[id]]
  /\ shared' = AttachTable(shared, target.dir, target.typed, t)
  /\ threads' = [threads EXCEPT ![t].pc = "allocated"]
  /\ UNCHANGED target
  /\ UNCHANGED <<seqVars, updateVars, live>>

\* AllocateSlotSet(chunk) / AllocateTypedSlotSet(chunk), second statement:
\* return chunk->..._slots(), the pointer the chunk has by now.
InsertAllocateSlotSetReturn(t) ==
  /\ threads[t].pc = "allocated"
  /\ threads' = [threads EXCEPT ![t].pc = "insert",
                                ![t].slot_set = SharedSlotSet]
  /\ UNCHANGED <<target, shared, tables>>
  /\ UNCHANGED <<seqVars, updateVars, live>>

\* slot_set[offset / Page::kPageSize].Insert(offset % Page::kPageSize), or
\* slot_set->Insert(slot_type, host_offset, offset), on the table the
\* thread's local pointer names; the call returns.
InsertIntoSlotSet(t) ==
  /\ threads[t].pc = "insert"
  /\ LET id == threads[t].slot_set[1]
         args == threads[t].args
         offset == args[Len(args)] - address(target.chunk)
         e == TypedEntry(target.chunk, args)
     IN tables' =
          [tables EXCEPT ![id] =
             IF target.typed
             THEN TypedSlotSetInsert(@, e.type, e.host_offset, e.offset)
             ELSE [@ EXCEPT ![offset \div kPageSize] =
                     SlotSetInsert(@, offset % kPageSize)]]
  /\ threads' = [threads EXCEPT ![t].pc = "returned"]
  /\ UNCHANGED <<target, shared>>
  /\ UNCHANGED <<seqVars, updateVars, live>>

NextThreads ==
  \E t \in Threads :
    \/ InsertGetSlotSet(t)
    \/ InsertAllocateSlotSet(t)
    \/ InsertAllocateSlotSetReturn(t)
    \/ InsertIntoSlotSet(t)

SpecThreads == InitThreads /\ [][NextThreads]_vars

\* ------------------------------------------------- clearing invalid slots
\* A heap of one chunk, a regular page or a large chunk, with no table, after
\* marking: the liveness of every slot address is settled.
InitValid ==
  /\ \E c \in Chunks :
       /\ chunks = [x \in {c} |-> EmptyChunk]
       /\ live \in SUBSET Addresses(c)
  /\ status = "running"
  /\ last = NoCall
  /\ pre = chunks
  /\ prev = NoCall
  /\ target = NoTarget
  /\ shared = EmptyChunk
  /\ tables = <<>>
  /\ threads = <<>>
  /\ memory = NoMemory
  /\ updated = NoUpdate

CallClearInvalidSlots(d) ==
  HeapCall("ClearInvalidSlots", d, <<>>, ClearInvalidSlots(chunks, d, live))

\* The failure VerifyValidSlots signals ends the process.
CallVerifyValidSlots(d) ==
  LET r == VerifyValidSlots(chunks, d, live)
  IN /\ status # "fatal"
     /\ last = NoCall
     /\ chunks' = r.chunks
     /\ pre' = chunks
     /\ last' = [op |-> "VerifyValidSlots", dir |-> d, chunk |-> "heap",
                 args |-> <<>>, policy |-> <<>>, visited |-> r.visited,
                 calls |-> r.calls, dcheck |-> r.failed]
     /\ status' = IF r.failed THEN "fatal" ELSE status
     /\ UNCHANGED prev
     /\ UNCHANGED <<threadVars, updateVars, live>>

\* Slots are recorded, and cleared and verified against the liveness
\* predicate; the callers record at most MaxEntries slots at one time.
NextValid ==
  \/ \E c \in DOMAIN chunks, d \in Directions :
       TotalEntries(chunks) < MaxEntries /\ CallInsert(c, d)
  \/ \E d \in Directions : CallClearInvalidSlots(d) \/ CallVerifyValidSlots(d)
  \/ Return(FALSE)

SpecValid == InitValid /\ [][NextValid]_vars

\* -------------------------------------------------- updating a typed slot
\* A typed slot of any of the six types that refers to an object; a debug
\* break slot sequence is patched or not.
InitUpdate ==
  /\ chunks = [c \in Chunks |-> EmptyChunk]
  /\ status = "running"
  /\ last = NoCall
  /\ pre = chunks
  /\ prev = NoCall
  /\ target = NoTarget
  /\ shared = EmptyChunk
  /\ tables = <<>>
  /\ threads = <<>>
  /\ \E slot_type \in AllSlotTypes, object \in Objects, patched \in BOOLEAN :
       memory = [slot_type |-> slot_type, word |-> SlotWord(slot_type, object),
                 patched |-> patched]
  /\ updated = NoUpdate
  /\ live = {}

\* UpdateTypedSlot on the slot with any callback.
CallUpdateTypedSlot ==
  \E callback \in Callbacks :
    LET r == UpdateTypedSlot(memory.slot_type, memory.word, memory.patched,
                             callback)
    IN /\ memory' = [memory EXCEPT !.word = r.word]
       /\ updated' = [slot_type |-> memory.slot_type, word |-> memory.word,
                      patched |-> memory.patched, callback |-> callback,
                      result |-> r.result, visited |-> r.visited,
                      calls |-> r.calls]
       /\ UNCHANGED <<seqVars, threadVars, live>>

NextUpdate == CallUpdateTypedSlot

SpecUpdate == InitUpdate /\ [][NextUpdate]_vars

\* ---------------------------------------------------------- the properties
\* The table pointers of a chunk for a direction, read from the chunk's fields.
SlotField(ch, d) ==
  IF d = OLD_TO_OLD THEN ch.old_to_old_slots ELSE ch.old_to_new_slots
TypedField(ch, d) ==
  IF d = OLD_TO_OLD THEN ch.typed_old_to_old_slots ELSE ch.typed_old_to_new_slots

\* For a call on one chunk: the tables of the call's direction before and
\* after it, and the offsets of its first two arguments.
SlotsBefore == SlotField(pre[last.chunk], last.dir)
SlotsAfter == SlotField(chunks[last.chunk], last.dir)
TypedBefore == TypedField(pre[last.chunk], last.dir)
TypedAfter == TypedField(chunks[last.chunk], last.dir)
ArgOffset(i) == last.args[i] - address(last.chunk)
AllVerdicts(v) == \A i \in DOMAIN last.policy : last.policy[i] = v

\* C1: drain-and-release.  Insert records its slot in an allocated table (so
\* N distinct inserts into an absent table leave N slots); Iterate on a table
\* with N >= 1 slots leaves the table absent when the policy returns
\* REMOVE_SLOT for every entry, and leaves the table allocated with exactly
\* the same N slots when it returns KEEP_SLOT for every entry.
C1_DrainAndRelease ==
  /\ last.op = "Insert" =>
       /\ SlotsAfter # nullptr
       /\ SlotsOf(SlotsAfter) = SlotsOf(SlotsBefore) \cup {ArgOffset(1)}
  /\ (last.op = "Iterate" /\ SlotsOf(SlotsBefore) # {}) =>
       /\ AllVerdicts(REMOVE_SLOT) => SlotsAfter = nullptr
       /\ AllVerdicts(KEEP_SLOT) =>
            /\ SlotsAfter # nullptr
            /\ SlotsOf(SlotsAfter) = SlotsOf(SlotsBefore)

\* C1 witness: an all-REMOVE Iterate of two or more slots, one of them in
\* the second page unit, that released the table.
C1_Witness ==
  /\ last.op = "Iterate"
  /\ Cardinality(SlotsOf(SlotsBefore)) >= 2
  /\ \E o \in SlotsOf(SlotsBefore) : o >= kPageSize
  /\ AllVerdicts(REMOVE_SLOT)
  /\ SlotsAfter = nullptr

C3_SpansPageUnits ==
  (last.op = "RemoveRange" /\ SlotsBefore # nullptr) =>
    /\ ~last.dcheck
    /\ \A o \in SlotsOf(SlotsAfter) : ~(ArgOffset(1) <= o /\ o < ArgOffset(2))

\* C3 amended: RemoveRange does not span page units.  A call whose end offset
\* exceeds the page size violates its DCHECK (and only such a call does); a
\* call within the DCHECK leaves no recorded slot in [start, end); and no
\* call, in any build, removes a slot of the second or a later page unit.
C3_FirstPageUnitOnly ==
  (last.op = "RemoveRange" /\ SlotsBefore # nullptr) =>
    /\ last.dcheck <=> ArgOffset(2) > kPageSize
    /\ ~last.dcheck =>
         \A o \in SlotsOf(SlotsAfter) : ~(ArgOffset(1) <= o /\ o < ArgOffset(2))
    /\ {o \in SlotsOf(SlotsAfter) : o >= kPageSize}
         = {o \in SlotsOf(SlotsBefore) : o >= kPageSize}
    /\ last.dcheck /\ status = "fatal" => chunks = pre

\* C3 witness: a RemoveRange over the whole large chunk, in a build without
\* DCHECKs, that left the slot of the second page unit recorded.
C3_Witness ==
  /\ last.op = "RemoveRange"
  /\ ArgOffset(1) < kPageSize /\ ArgOffset(2) > kPageSize
  /\ status = "unchecked"
  /\ \E o \in SlotsOf(SlotsAfter) : ArgOffset(1) <= o /\ o < ArgOffset(2)
  /\ \E o \in SlotsOf(SlotsBefore) \ SlotsOf(SlotsAfter) : o < kPageSize

\* C5: Insert is idempotent.  Inserting a slot the table already records
\* leaves the whole heap as it was and allocates nothing; in every state two
\* Inserts of an address give the chunk one Insert gives; and Iterate invokes
\* the policy exactly once for every recorded slot, with its address, and
\* retains as many slots as the policy returned KEEP_SLOT for.
C5_InsertIdempotent ==
  /\ (last.op = "Insert" /\ ArgOffset(1) \in SlotsOf(SlotsBefore)) =>
       chunks = pre /\ last.calls = <<>>
  /\ \A c \in DOMAIN chunks, d \in Directions :
       \A a \in Addresses(c) :
         Insert(Insert(chunks[c], c, d, a).chunk, c, d, a).chunk
           = Insert(chunks[c], c, d, a).chunk
  /\ last.op = "Iterate" =>
       /\ Len(last.visited) = Cardinality(SlotsOf(SlotsBefore))
       /\ {last.visited[i] : i \in DOMAIN last.visited}
            = {address(last.chunk) + o : o \in SlotsOf(SlotsBefore)}
       /\ Cardinality(SlotsOf(SlotsAfter))
            = Cardinality({i \in DOMAIN last.visited :
                             last.policy[i] = KEEP_SLOT})

\* C5 witness: the second Insert of a slot of the second page unit, into a
\* table that records one more slot.
C5_Witness ==
  /\ last.op = "Insert"
  /\ ArgOffset(1) \in SlotsOf(SlotsBefore)
  /\ ArgOffset(1) >= kPageSize
  /\ Cardinality(SlotsOf(SlotsAfter)) = 2
  /\ chunks = pre

\* C6: expected absence is a no-op.  Remove, RemoveRange and Iterate on a
\* chunk with no slot table, and RemoveRangeTyped and IterateTyped on a chunk
\* with no typed table, for the direction, invoke no policy, allocate and
\* release nothing, violate no DCHECK and leave the whole heap unchanged.
C6_AbsentIsNoOp ==
  /\ (last.op \in {"Remove", "RemoveRange", "Iterate"} /\ SlotsBefore = nullptr) =>
       /\ chunks = pre
       /\ last.visited = <<>> /\ last.calls = <<>> /\ ~last.dcheck
  /\ (last.op \in {"RemoveRangeTyped", "IterateTyped"} /\ TypedBefore = nullptr) =>
       /\ chunks = pre
       /\ last.visited = <<>> /\ last.calls = <<>> /\ ~last.dcheck

\* C6 witness: IterateTyped on a chunk with no typed table for the direction
\* whose slot table for the direction records a slot.
C6_Witness ==
  /\ last.op = "IterateTyped"
  /\ TypedBefore = nullptr /\ TypedAfter = nullptr
  /\ SlotsOf(SlotsAfter) # {}

\* The direction a call is not about.
OtherDirection(d) == IF d = OLD_TO_OLD THEN OLD_TO_NEW ELSE OLD_TO_OLD

\* What the tables of direction d held before the last call: the slot
\* addresses, and the typed entries as a typed callback gets them.
AddressesBefore(d) ==
  UNION {{address(c) + o : o \in SlotsOf(SlotField(pre[c], d))} : c \in DOMAIN pre}
TriplesBefore(d) ==
  UNION {{<<e.type, address(c) + e.host_offset, address(c) + e.offset>> :
            e \in {EntriesOf(TypedField(pre[c], d))[i] :
                     i \in DOMAIN EntriesOf(TypedField(pre[c], d))}} :
         c \in DOMAIN pre}

\* C7: directional isolation.  Every call of RememberedSet<d> leaves the slot
\* table and the typed table of the other direction, on every chunk, as they
\* were, and passes its policy only entries the tables of d held.
C7_DirectionalIsolation ==
  last.op # "none" =>
    /\ \A c \in DOMAIN chunks :
         /\ SlotField(chunks[c], OtherDirection(last.dir))
              = SlotField(pre[c], OtherDirection(last.dir))
         /\ TypedField(chunks[c], OtherDirection(last.dir))
              = TypedField(pre[c], OtherDirection(last.dir))
    /\ last.op \in {"Iterate", "IterateHeap"} =>
         \A i \in DOMAIN last.visited : last.visited[i] \in AddressesBefore(last.dir)
    /\ last.op \in {"IterateTyped", "IterateTypedHeap"} =>
         \A i \in DOMAIN last.visited : last.visited[i] \in TriplesBefore(last.dir)
    /\ last.op \notin {"Iterate", "IterateHeap", "IterateTyped", "IterateTypedHeap"} =>
         last.visited = <<>>

\* C7 witness: an Iterate that drained and released the table of its
\* direction while the other direction's table records another slot.
C7_Witness ==
  /\ last.op = "Iterate"
  /\ last.visited # <<>>
  /\ SlotsAfter = nullptr
  /\ AddressesBefore(OtherDirection(last.dir)) # {}
  /\ AddressesBefore(OtherDirection(last.dir)) \cap AddressesBefore(last.dir) = {}
  /\ SlotField(chunks[last.chunk], OtherDirection(last.dir)) # nullptr

\* An IterateTyped that directly follows the InsertTyped that allocated the
\* typed table, on the same chunk and direction, the insert within its
\* DCHECKs.
RoundTrip ==
  /\ prev.op = "InsertTyped" /\ last.op = "IterateTyped"
  /\ prev.chunk = last.chunk /\ prev.dir = last.dir
  /\ ~prev.dcheck

\* C8 as claimed: the IterateTyped invokes the policy exactly once with the
\* kind, the host address and the slot address that were inserted; on
\* KEEP_SLOT one entry remains and the table stays, on REMOVE_SLOT no entry
\* remains and the table is released.
C8_RoundTripSameHost ==
  RoundTrip =>
    /\ last.visited = <<<<prev.args[2], prev.args[1], prev.args[3]>>>>
    /\ last.policy[1] = KEEP_SLOT =>
         TypedAfter # nullptr /\ Len(EntriesOf(TypedAfter)) = 1
    /\ last.policy[1] = REMOVE_SLOT => TypedAfter = nullptr

\* C8 amended: as claimed, but the host address the policy gets is the one
\* inserted only when that was not null; for a null host address it is the
\* chunk base.
C8_RoundTripHostOrBase ==
  RoundTrip =>
    /\ last.visited =
         <<<<prev.args[2],
             IF prev.args[1] = NullAddress THEN address(last.chunk)
             ELSE prev.args[1],
             prev.args[3]>>>>
    /\ last.policy[1] = KEEP_SLOT =>
         TypedAfter # nullptr /\ Len(EntriesOf(TypedAfter)) = 1
    /\ last.policy[1] = REMOVE_SLOT => TypedAfter = nullptr

\* C8 witness: InsertTyped with a null host address, then an IterateTyped
\* that kept the entry and got the chunk base as the host address.
C8_Witness ==
  /\ RoundTrip
  /\ prev.args[1] = NullAddress
  /\ last.policy = <<KEEP_SLOT>>
  /\ last.visited[1][2] = address(last.chunk)
  /\ Len(EntriesOf(TypedAfter)) = 1

\* The entries of seq whose verdict in policy is KEEP_SLOT, in order.
RECURSIVE KeptBy(_, _)
KeptBy(seq, policy) ==
  IF seq = <<>> THEN <<>>
  ELSE (IF Head(policy) = KEEP_SLOT THEN <<Head(seq)>> ELSE <<>>)
       \o KeptBy(Tail(seq), Tail(policy))

\* The entry InsertTyped is to record for the arguments of the last call.
EntryOfArgs ==
  [type |-> last.args[2],
   host_offset |-> IF last.args[1] \in {NullAddress, address(last.chunk)} THEN 0
                   ELSE last.args[1] - address(last.chunk),
   offset |-> last.args[3] - address(last.chunk)]

\* C9: the typed table is an ordered, non-deduplicated collection.  Every
\* InsertTyped that is not stopped by a DCHECK appends one entry at the end,
\* whatever the table holds; IterateTyped invokes the policy once per entry,
\* in the order of the table, and the entries it keeps keep their relative
\* order; so does RemoveRangeTyped.
C9_TypedOrderedNotDeduplicated ==
  /\ (last.op = "InsertTyped" /\ status # "fatal") =>
       /\ Len(EntriesOf(TypedAfter)) = Len(EntriesOf(TypedBefore)) + 1
       /\ SubSeq(EntriesOf(TypedAfter), 1, Len(EntriesOf(TypedBefore)))
            = EntriesOf(TypedBefore)
  /\ last.op = "IterateTyped" =>
       /\ last.visited =
            [i \in DOMAIN EntriesOf(TypedBefore) |->
               <<EntriesOf(TypedBefore)[i].type,
                 address(last.chunk) + EntriesOf(TypedBefore)[i].host_offset,
                 address(last.chunk) + EntriesOf(TypedBefore)[i].offset>>]
       /\ EntriesOf(TypedAfter) = KeptBy(EntriesOf(TypedBefore), last.policy)
  /\ last.op = "RemoveRangeTyped" =>
       EntriesOf(TypedAfter) =
         KeptBy(EntriesOf(TypedBefore),
                [i \in DOMAIN EntriesOf(TypedBefore) |->
                   IF /\ last.args[1] <= address(last.chunk)
                                           + EntriesOf(TypedBefore)[i].offset
                      /\ address(last.chunk) + EntriesOf(TypedBefore)[i].offset
                           < last.args[2]
                   THEN REMOVE_SLOT ELSE KEEP_SLOT])

\* C9 witness: an IterateTyped over a table holding the same triple twice
\* that invoked the policy twice with it and kept the second entry only.
C9_Witness ==
  /\ last.op = "IterateTyped"
  /\ Len(last.visited) = 2
  /\ last.visited[1] = last.visited[2]
  /\ last.policy = <<REMOVE_SLOT, KEEP_SLOT>>
  /\ Len(EntriesOf(TypedAfter)) = 1

\* C10: InsertTyped records host-offset 0 for a host address equal to the
\* chunk base (and for a null one), host address minus chunk base for any
\* other host address in the chunk, and slot address minus chunk base as the
\* slot-offset; a DCHECK is violated exactly when one of the two offsets is
\* not below the packing limit, and then a build with DCHECKs records
\* nothing.
C10_TypedOffsets ==
  last.op = "InsertTyped" =>
    /\ last.dcheck <=> (EntryOfArgs.offset >= kMaxOffset
                        \/ EntryOfArgs.host_offset >= kMaxOffset)
    /\ status # "fatal" =>
         EntriesOf(TypedAfter) = Append(EntriesOf(TypedBefore), EntryOfArgs)
    /\ status = "fatal" =>
         last.dcheck /\ EntriesOf(TypedAfter) = EntriesOf(TypedBefore)

\* C10 witness: an InsertTyped with the chunk base as the host address that
\* recorded host-offset 0 after an entry with another host-offset.
C10_Witness ==
  /\ last.op = "InsertTyped"
  /\ last.args[1] = address(last.chunk)
  /\ ~last.dcheck
  /\ Len(EntriesOf(TypedAfter)) = 2
  /\ EntriesOf(TypedAfter)[1].host_offset # 0
  /\ EntriesOf(TypedAfter)[2].host_offset = 0

\* The table attached to the shared chunk records what thread t inserted.
Recorded(t) ==
  /\ SharedSlotSet # nullptr
  /\ IF target.typed
     THEN \E i \in DOMAIN tables[SharedSlotSet[1]] :
            tables[SharedSlotSet[1]][i]
              = TypedEntry(target.chunk, threads[t].args)
     ELSE threads[t].args[1] - address(target.chunk)
            \in SlotsOf(<<tables[SharedSlotSet[1]]>>)

\* C4 as claimed: once every thread's Insert (or InsertTyped) on the same
\* chunk and direction has returned, in any interleaving and also when the
\* table was absent at the start, one table is attached to the chunk and it
\* records every slot that was inserted.
C4_NoInsertLost ==
  (threads # <<>> /\ \A t \in DOMAIN threads : threads[t].pc = "returned") =>
    \A t \in DOMAIN threads : Recorded(t)

\* C11: ClearAll, which only RememberedSet<OLD_TO_OLD> has, releases both
\* kinds of table unconditionally: after it every chunk of the heap has
\* neither an old-to-old slot table nor an old-to-old typed table, whatever
\* the tables held, and no policy has been invoked.
C11_ClearAllReleasesBoth ==
  last.op = "ClearAll" =>
    /\ last.dir = OLD_TO_OLD
    /\ \A c \in DOMAIN chunks :
         /\ chunks[c].old_to_old_slots = nullptr
         /\ chunks[c].typed_old_to_old_slots = nullptr
    /\ last.visited = <<>>

\* C11 witness: a ClearAll on a heap where one chunk recorded an old-to-old
\* slot and another chunk an old-to-old typed entry.
C11_Witness ==
  /\ last.op = "ClearAll"
  /\ \E c1 \in DOMAIN pre, c2 \in DOMAIN pre :
       /\ c1 # c2
       /\ SlotsOf(pre[c1].old_to_old_slots) # {}
       /\ EntriesOf(pre[c2].typed_old_to_old_slots) # <<>>
  /\ \A c \in DOMAIN chunks :
       /\ chunks[c].old_to_old_slots = nullptr
       /\ chunks[c].typed_old_to_old_slots = nullptr

\* The codec calls that decode the reference of a slot / write one back.
Decoders ==
  {"target_address", "target_cell", "GetObjectFromEntryAddress",
   "debug_call_address", "target_object"}
Encoders ==
  {"set_target_address", "set_target_cell", "Address_at",
   "set_debug_call_address", "set_target_object"}
Decoded == \E i \in DOMAIN updated.calls : updated.calls[i] \in Decoders
Encoded == \E i \in DOMAIN updated.calls : updated.calls[i] \in Encoders
\* The callback of the last update was invoked and left another object than
\* the one it was given.
Changed ==
  /\ updated.visited # <<>>
  /\ updated.callback[updated.visited[1]].object # updated.visited[1]

\* C12: write-back asymmetry of UpdateTypedSlot.  For a code target, cell,
\* code entry or embedded object slot the callback gets the decoded
\* reference, and the reference is written back if and only if the callback
\* changed it (the slot then refers to the new object, else the word is as
\* it was); for a debug target slot on a patched sequence it is written back
\* on every call; for an object slot the callback works on the raw location
\* and nothing is decoded or encoded.
C12_WriteBackAsymmetry ==
  /\ updated.slot_type \in {CODE_TARGET_SLOT, CELL_TARGET_SLOT, CODE_ENTRY_SLOT,
                            EMBEDDED_OBJECT_SLOT} =>
       /\ Decoded
       /\ updated.word = SlotWord(updated.slot_type, updated.visited[1])
       /\ Encoded <=> Changed
       /\ Changed => memory.word =
            SlotWord(updated.slot_type,
                     updated.callback[updated.visited[1]].object)
       /\ ~Changed => memory.word = updated.word
  /\ (updated.slot_type = DEBUG_TARGET_SLOT /\ updated.patched) =>
       /\ Decoded
       /\ Encoded
       /\ memory.word = SlotWord(DEBUG_TARGET_SLOT,
                                 updated.callback[updated.visited[1]].object)
  /\ updated.slot_type = OBJECT_SLOT =>
       /\ ~Decoded /\ ~Encoded
       /\ updated.visited = <<updated.word>>
       /\ memory.word = updated.callback[updated.word].object

\* C12 witness: an update of a patched debug target slot whose callback left
\* the reference as it was, and the reference was written back.
C12_Witness ==
  /\ updated.slot_type = DEBUG_TARGET_SLOT
  /\ updated.patched
  /\ ~Changed
  /\ Encoded

\* C13: UpdateTypedSlot on a debug target slot whose sequence is not patched
\* returns REMOVE_SLOT without invoking the callback and without decoding or
\* encoding anything; in every other case it invokes the callback once and
\* returns the callback's verdict.
C13_StaleDebugSlot ==
  /\ (updated.slot_type = DEBUG_TARGET_SLOT /\ ~updated.patched) =>
       /\ updated.result = REMOVE_SLOT
       /\ updated.visited = <<>>
       /\ ~Decoded /\ ~Encoded
       /\ memory.word = updated.word
  /\ (updated.slot_type \in AllSlotTypes
      /\ ~(updated.slot_type = DEBUG_TARGET_SLOT /\ ~updated.patched)) =>
       /\ Len(updated.visited) = 1
       /\ updated.result = updated.callback[updated.visited[1]].result

\* C13 witness: an update of an unpatched debug target slot that returned
\* REMOVE_SLOT although the callback returns KEEP_SLOT for every object.
C13_Witness ==
  /\ updated.slot_type = DEBUG_TARGET_SLOT
  /\ ~updated.patched
  /\ \A o \in Objects : updated.callback[o].result = KEEP_SLOT
  /\ updated.result = REMOVE_SLOT

C15_IterateCoversPageUnits ==
  (last.op = "Iterate" /\ SlotsBefore # nullptr) =>
    /\ Len(last.visited) = Cardinality(SlotsOf(SlotsBefore))
    /\ {last.visited[i] : i \in DOMAIN last.visited}
         = {address(last.chunk) + o : o \in SlotsOf(SlotsBefore)}
    /\ SlotsAfter = nullptr <=> AllVerdicts(REMOVE_SLOT)
    /\ SlotsAfter # nullptr =>
         SlotsOf(SlotsAfter) =
           {last.visited[i] - address(last.chunk) :
              i \in {j \in DOMAIN last.visited : last.policy[j] = KEEP_SLOT}}

\* C15 witness: an Iterate on the large chunk that drained the second page
\* unit while a slot of the first one was retained, and the table stayed.
C15_Witness ==
  /\ last.op = "Iterate"
  /\ \E o \in SlotsOf(SlotsBefore) : o >= kPageSize
  /\ SlotsAfter # nullptr
  /\ SlotsOf(SlotsAfter) # {}
  /\ \A o \in SlotsOf(SlotsAfter) : o < kPageSize

\* The chunks of the heap before the last call, in the order of the
\* MemoryChunkIterator, that had a table of either kind for direction d.
ChunksWithTable(d) ==
  SelectSeq(ChunkOrder,
            LAMBDA c : /\ c \in DOMAIN pre
                       /\ \/ SlotField(pre[c], d) # nullptr
                          \/ TypedField(pre[c], d) # nullptr)

\* C16: heap-wide Iterate enumerates every chunk that holds a table of either
\* kind for the direction, and no other chunk; it invokes the policy exactly
\* once for every untyped slot recorded on any chunk of the heap, and
\* afterwards no chunk holds an untyped slot table with no entry.
C16_HeapWideIterate ==
  last.op = "IterateHeap" =>
    /\ IterateHeap(pre, last.dir, SlotCallback(last.policy)).entered
         = ChunksWithTable(last.dir)
    /\ Len(last.visited) = Cardinality(AddressesBefore(last.dir))
    /\ {last.visited[i] : i \in DOMAIN last.visited} = AddressesBefore(last.dir)
    /\ \A c \in DOMAIN chunks :
         SlotField(chunks[c], last.dir) # nullptr =>
           SlotsOf(SlotField(chunks[c], last.dir)) # {}

\* C16 witness: a heap-wide Iterate that visited a slot on each of the two
\* chunks and released the slot table of one of them.
C16_Witness ==
  /\ last.op = "IterateHeap"
  /\ \A c \in DOMAIN pre :
       \E i \in DOMAIN last.visited : last.visited[i] \in Addresses(c)
  /\ \E c \in DOMAIN chunks : SlotField(chunks[c], last.dir) = nullptr
  /\ \E c \in DOMAIN chunks : SlotField(chunks[c], last.dir) # nullptr

\* C17: right after Iterate(chunk) the chunk's slot table of the direction
\* is present if and only if it records at least one slot, and right after
\* IterateTyped(chunk) the typed table is present if and only if it holds at
\* least one entry; this also when the table was already empty before the
\* iteration.
C17_PresentIffEntries ==
  /\ last.op = "Iterate" =>
       (SlotsAfter # nullptr <=> SlotsOf(SlotsAfter) # {})
  /\ last.op = "IterateTyped" =>
       (TypedAfter # nullptr <=> EntriesOf(TypedAfter) # <<>>)

\* C17 witness: an Iterate on a slot table that was present and empty (its
\* slots had been removed), which released the table.
C17_Witness ==
  /\ last.op = "Iterate"
  /\ SlotsBefore # nullptr
  /\ SlotsOf(SlotsBefore) = {}
  /\ SlotsAfter = nullptr

\* The last call was an iteration of direction d (per chunk or heap-wide)
\* that retained no slot of chunk c / no typed entry of chunk c.
DrainedSlots(c, d) ==
  /\ last.op \in {"Iterate", "IterateHeap"}
  /\ last.dir = d
  /\ last.chunk \in {c, "heap"}
  /\ \A i \in DOMAIN last.visited :
       last.visited[i] \in address(c)..(address(c) + size(c)) =>
         last.policy[i] = REMOVE_SLOT
DrainedTyped(c, d) ==
  /\ last.op \in {"IterateTyped", "IterateTypedHeap"}
  /\ last.dir = d
  /\ last.chunk \in {c, "heap"}
  /\ \A i \in DOMAIN last.visited :
       last.visited[i][3] \in address(c)..(address(c) + size(c)) =>
         last.policy[i] = REMOVE_SLOT

\* C18: table lifecycle.  A table of a chunk and direction goes from absent
\* to present only in an Insert (slot table) or InsertTyped (typed table) on
\* that chunk and direction; it goes from present to absent only in ClearAll
\* or in an iteration of its kind that retained none of its entries; Remove,
\* RemoveRange and RemoveRangeTyped leave a present table present, also when
\* they remove its last entry; Insert and InsertTyped on a present table
\* allocate nothing and keep what the table holds.
C18_TableLifecycle ==
  /\ \A c \in DOMAIN chunks, d \in Directions :
       /\ (SlotField(pre[c], d) = nullptr /\ SlotField(chunks[c], d) # nullptr)
            => (last.op = "Insert" /\ last.chunk = c /\ last.dir = d)
       /\ (TypedField(pre[c], d) = nullptr /\ TypedField(chunks[c], d) # nullptr)
            => (last.op = "InsertTyped" /\ last.chunk = c /\ last.dir = d)
       /\ (SlotField(pre[c], d) # nullptr /\ SlotField(chunks[c], d) = nullptr)
            => \/ last.op = "ClearAll" /\ d = OLD_TO_OLD
               \/ DrainedSlots(c, d)
       /\ (TypedField(pre[c], d) # nullptr /\ TypedField(chunks[c], d) = nullptr)
            => \/ last.op = "ClearAll" /\ d = OLD_TO_OLD
               \/ DrainedTyped(c, d)
  /\ (last.op \in {"Remove", "RemoveRange"} /\ SlotsBefore # nullptr) =>
       SlotsAfter # nullptr
  /\ (last.op = "RemoveRangeTyped" /\ TypedBefore # nullptr) =>
       TypedAfter # nullptr
  /\ (last.op = "Insert" /\ SlotsBefore # nullptr) =>
       /\ last.calls = <<>>
       /\ SlotsOf(SlotsBefore) \subseteq SlotsOf(SlotsAfter)
  /\ (last.op = "InsertTyped" /\ TypedBefore # nullptr) =>
       /\ last.calls = <<>>
       /\ SubSeq(EntriesOf(TypedAfter), 1, Len(EntriesOf(TypedBefore)))
            = EntriesOf(TypedBefore)

\* C18 witness: a Remove that removed the last slot of a table, and the table
\* stayed present.
C18_Witness ==
  /\ last.op = "Remove"
  /\ SlotsOf(SlotsBefore) # {}
  /\ SlotsOf(SlotsAfter) = {}
  /\ SlotsAfter # nullptr

\* The abstract set of slot offsets a chunk's slot table stands for, before
\* and after the last call; an absent table stands for the empty set.
AbstractBefore == SlotsOf(SlotsBefore)
AbstractAfter == SlotsOf(SlotsAfter)
\* The abstract operations on it.
AbstractAdd(S, o) == S \cup {o}
AbstractDelete(S, o) == S \ {o}
AbstractDeleteRange(S, from, to) == {o \in S : o < from \/ o >= to}
\* filter: the policy's verdicts are given in ascending order of the slots.
AbstractFilter(S, policy) ==
  {o \in S : policy[Cardinality({x \in S : x <= o})] = KEEP_SLOT}

\* The steps of the refinement other than RemoveRange: Insert is add (into a
\* freshly allocated table when the table is absent), Remove is delete,
\* Iterate is filter by the policy, ClearAll is clear.
RefinesAbstractSet ==
  /\ last.op = "Insert" =>
       /\ AbstractAfter = AbstractAdd(AbstractBefore, ArgOffset(1))
       /\ SlotsBefore = nullptr => last.calls = <<"AllocateSlotSet">>
  /\ last.op = "Remove" =>
       AbstractAfter = AbstractDelete(AbstractBefore, ArgOffset(1))
  /\ last.op = "Iterate" =>
       AbstractAfter = AbstractFilter(AbstractBefore, last.policy)
  /\ last.op = "ClearAll" =>
       \A c \in DOMAIN chunks : SlotsOf(chunks[c].old_to_old_slots) = {}

\* C19 as claimed: for every sequence of Insert, Remove, RemoveRange, Iterate
\* and ClearAll the slots the remembered set holds are the abstract set
\* updated by add, delete, delete-range, filter and clear.
C19_RefinesAbstractSet ==
  /\ RefinesAbstractSet
  /\ last.op = "RemoveRange" =>
       AbstractAfter = AbstractDeleteRange(AbstractBefore, ArgOffset(1),
                                           ArgOffset(2))

\* C19 amended: as claimed, with RemoveRange being delete-range for the
\* calls within its DCHECKs (end offset at most the page size) only.
C19_RefinesAbstractSetWithinPage ==
  /\ RefinesAbstractSet
  /\ (last.op = "RemoveRange" /\ ~last.dcheck) =>
       AbstractAfter = AbstractDeleteRange(AbstractBefore, ArgOffset(1),
                                           ArgOffset(2))

\* C19 witness: an Iterate over slots of both page units that filtered out a
\* slot of the first page unit and kept one of the second.
C19_Witness ==
  /\ last.op = "Iterate"
  /\ \E o \in AbstractBefore \ AbstractAfter : o < kPageSize
  /\ \E o \in AbstractAfter : o >= kPageSize
  /\ AbstractAfter = AbstractFilter(AbstractBefore, last.policy)

\* C20: kind isolation within a direction.  Insert, Remove, RemoveRange and
\* Iterate (per chunk and heap-wide) leave the typed table of their direction
\* as it was on every chunk, in presence and contents; InsertTyped,
\* RemoveRangeTyped and IterateTyped (per chunk and heap-wide) leave the slot
\* table of their direction as it was on every chunk, and an IterateTyped
\* invokes its policy for typed entries only, once for each.
C20_KindIsolation ==
  /\ last.op \in {"Insert", "Remove", "RemoveRange", "Iterate", "IterateHeap"} =>
       \A c \in DOMAIN chunks :
         TypedField(chunks[c], last.dir) = TypedField(pre[c], last.dir)
  /\ last.op \in {"InsertTyped", "RemoveRangeTyped", "IterateTyped",
                  "IterateTypedHeap"} =>
       \A c \in DOMAIN chunks :
         SlotField(chunks[c], last.dir) = SlotField(pre[c], last.dir)
  /\ last.op \in {"IterateTyped", "IterateTypedHeap"} =>
       /\ Len(last.visited) =
            SumOver([c \in DOMAIN pre |-> NumTyped(pre[c], last.dir)], DOMAIN pre)
       /\ \A i \in DOMAIN last.visited : last.visited[i] \in TriplesBefore(last.dir)

\* C20 witness: a heap-wide IterateTyped over a chunk that has a slot table
\* with a slot and no typed table: nothing is visited, the table stays.
C20_Witness ==
  /\ last.op = "IterateTypedHeap"
  /\ last.visited = <<>>
  /\ \E c \in DOMAIN chunks :
       /\ TypedField(pre[c], last.dir) = nullptr
       /\ SlotsOf(SlotField(pre[c], last.dir)) # {}
       /\ SlotField(chunks[c], last.dir) = SlotField(pre[c], last.dir)

====
